---- MODULE Spec2Model ----
(***************************************************************************)
(* A model of anki-articles-to-org (src/anki_articles_to_org/__init__.py): *)
(* the per-note pipeline write_org_file (backfill of time_added, render,   *)
(* incremental write), the thread scheduler schedule_thread and the main   *)
(* program _main/main, run against an AnkiConnect store and an output      *)
(* directory that both outlive one run of the process.                     *)
(*                                                                         *)
(* Text is a sequence of code points, file content a sequence of bytes.    *)
(***************************************************************************)
EXTENDS Integers, Sequences, FiniteSets, TLC

\* ------------------------------------------------------------------ bounds

\* Notes in the store (the result of findNotes / notesInfo).
MaxNotes == 3

\* Length of the threads array ([None] * BATCH_SIZE); 50 in the source.
BATCH_SIZE == 2

\* Runs of the program in a row over the same store and output directory.
MaxRuns == 2

NoteIds == 1..MaxNotes
Slots == 1..BATCH_SIZE

\* --------------------------------------------------------- Python values

\* Python's None where a str or bytes is expected: no text contains -1.
None == <<-1>>

\* bool(x) of a str-or-None: None and "" are falsy.
Truthy(s) == s # None /\ s # <<>>

\* f"{x}" of a str-or-None.
Format(s) == IF s = None THEN <<78, 111, 110, 101>> ELSE s

RECURSIVE Concat(_)
Concat(parts) ==
  IF parts = <<>> THEN <<>> ELSE Head(parts) \o Concat(Tail(parts))

\* str.strip(): leading and trailing whitespace removed.
IsSpace(c) == c \in {9, 10, 11, 12, 13, 32}

RECURSIVE LStrip(_)
LStrip(s) ==
  IF s # <<>> /\ IsSpace(Head(s)) THEN LStrip(Tail(s)) ELSE s

RECURSIVE RStrip(_)
RStrip(s) ==
  IF s # <<>> /\ IsSpace(s[Len(s)]) THEN RStrip(SubSeq(s, 1, Len(s) - 1)) ELSE s

Strip(s) == RStrip(LStrip(s))

\* str(n) of a non-negative int: its decimal digits.
RECURSIVE Str(_)
Str(n) ==
  IF n < 10 THEN <<48 + n>> ELSE Str(n \div 10) \o <<48 + (n % 10)>>

\* int(s) of a stripped str: -1 stands for ValueError (a non-digit, or "").
IsDigit(c) == c \in 48..57

RECURSIVE IntOfDigits(_, _)
IntOfDigits(s, acc) ==
  IF s = <<>> THEN acc ELSE IntOfDigits(Tail(s), 10 * acc + (Head(s) - 48))

ParseInt(s) ==
  IF s # <<>> /\ \A i \in 1..Len(s) : IsDigit(s[i])
  THEN IntOfDigits(s, 0)
  ELSE -1

\* min(...) of a sequence of ints: -1 stands for ValueError (empty sequence).
Min(xs) ==
  IF xs = <<>> THEN -1
  ELSE CHOOSE m \in {xs[i] : i \in 1..Len(xs)} :
         \A i \in 1..Len(xs) : m <= xs[i]

\* str.encode("utf-8") for code points below 0x800 (halved, not peeled, to
\* keep the evaluation shallow on a whole file).
RECURSIVE Utf8Encode(_)
Utf8Encode(s) ==
  IF s = <<>> THEN <<>>
  ELSE IF Len(s) = 1
  THEN (IF s[1] < 128 THEN s
        ELSE <<192 + (s[1] \div 64), 128 + (s[1] % 64)>>)
  ELSE Utf8Encode(SubSeq(s, 1, Len(s) \div 2))
         \o Utf8Encode(SubSeq(s, Len(s) \div 2 + 1, Len(s)))

\* bytes.decode("utf-8", errors="strict") succeeds on the bytes Utf8Encode
\* can make: every byte is ASCII, or the lead byte of a two-byte sequence
\* followed by its continuation byte, or that continuation byte.
Utf8Valid(b) ==
  \A i \in 1..Len(b) :
    \/ b[i] < 128
    \/ b[i] \in 194..223 /\ i < Len(b) /\ b[i + 1] \in 128..191
    \/ b[i] \in 128..191 /\ i > 1 /\ b[i - 1] \in 194..223

\* --------------------------------------------------- time.strftime (UTC)

Pad2(n) == <<48 + (n \div 10), 48 + (n % 10)>>

Pad4(n) == Pad2(n \div 100) \o Pad2(n % 100)

\* The civil date of a day count since 1970-01-01 (proleptic Gregorian).
CivilFromDays(days) ==
  LET z == days + 719468
      era == z \div 146097
      doe == z - era * 146097
      yoe == (doe - doe \div 1460 + doe \div 36524 - doe \div 146096) \div 365
      doy == doe - (365 * yoe + yoe \div 4 - yoe \div 100)
      mp == (5 * doy + 2) \div 153
      d == doy - (153 * mp + 2) \div 5 + 1
      m == IF mp < 10 THEN mp + 3 ELSE mp - 9
      y == yoe + era * 400 + (IF m <= 2 THEN 1 ELSE 0)
  IN [year |-> y, month |-> m, day |-> d]

\* %a in the C locale; 1970-01-01 was a Thursday.
DayName(days) ==
  LET names == << <<83, 117, 110>>, <<77, 111, 110>>, <<84, 117, 101>>,
                  <<87, 101, 100>>, <<84, 104, 117>>, <<70, 114, 105>>,
                  <<83, 97, 116>> >>
  IN names[((days + 4) % 7) + 1]

\* time.strftime("%Y-%m-%d", time.localtime(t)), the local zone being UTC.
FormatYmd(t) ==
  LET c == CivilFromDays(t \div 86400)
  IN Pad4(c.year) \o <<45>> \o Pad2(c.month) \o <<45>> \o Pad2(c.day)

\* time.strftime("%Y-%m-%d %a %H:%M", time.localtime(t)).
FormatOrgDate(t) ==
  LET secs == t % 86400
  IN FormatYmd(t) \o <<32>> \o DayName(t \div 86400) \o <<32>>
       \o Pad2(secs \div 3600) \o <<58>> \o Pad2((secs % 3600) \div 60)

\* ------------------------------------------------------------ html_to_org

\* What pandoc -fhtml -torg prints for the fragments the store holds:
\* nothing for an empty fragment, "Hi\n" for "<p>Hi</p>", and a fragment
\* without markup followed by a newline.
Pandoc(html) ==
  IF html = <<>> THEN <<>>
  ELSE IF html = <<60, 112, 62, 72, 105, 60, 47, 112, 62>> THEN <<72, 105, 10>>
  ELSE html \o <<10>>

\* html_to_org(html) when pandoc exits 0: its standard output, decoded.
html_to_org(html) == Pandoc(html)

\* ------------------------------------------------- retrieve_and_fixup_url

HasPrefixAt(s, i, p) ==
  /\ i + Len(p) - 1 <= Len(s)
  /\ \A j \in 1..Len(p) : s[i + j - 1] = p[j]

NoNewline(s, from, to) == \A j \in from..to : s[j] # 10

AnchorOpen == <<60, 97, 32, 104, 114, 101, 102, 61>>

AnchorClose == <<60, 47, 97, 62>>

\* The ways r'"?(.*?)"?>(.*)</a>' matches a prefix of r: <<a, k, b, e>> with
\* a, b whether each optional quote is taken, k the length of group 1 and
\* e the index of the last character of group 2.
AnchorMatches(r) ==
  {m \in {0, 1} \X (0..Len(r)) \X {0, 1} \X (0..Len(r)) :
     LET a == m[1]
         k == m[2]
         b == m[3]
         e == m[4]
         gt == a + k + b + 1
     IN /\ a = 1 => (Len(r) >= 1 /\ r[1] = 34)
        /\ gt <= Len(r)
        /\ NoNewline(r, a + 1, a + k)
        /\ b = 1 => r[a + k + 1] = 34
        /\ r[gt] = 62
        /\ e >= gt
        /\ NoNewline(r, gt + 1, e)
        /\ HasPrefixAt(r, e + 1, AnchorClose)}

\* The match a backtracking matcher finds first: a greedy "?, the shortest
\* group 1, a greedy "?, the longest group 2.
AnchorBest(ms) ==
  CHOOSE m \in ms :
    \A o \in ms :
      \/ m[1] > o[1]
      \/ m[1] = o[1] /\ m[2] < o[2]
      \/ m[1] = o[1] /\ m[2] = o[2] /\ m[3] > o[3]
      \/ m[1] = o[1] /\ m[2] = o[2] /\ m[3] = o[3] /\ m[4] >= o[4]

retrieve_and_fixup_url(value) ==
  LET link == Strip(value)
      r == SubSeq(link, Len(AnchorOpen) + 1, Len(link))
      ms == AnchorMatches(r)
  IN IF link = <<>> THEN None
     ELSE IF ~HasPrefixAt(link, 1, AnchorOpen) \/ ms = {} THEN link
     ELSE LET m == AnchorBest(ms)
              g1 == SubSeq(r, m[1] + 1, m[1] + m[2])
              g2 == SubSeq(r, m[1] + m[2] + m[3] + 2, m[4])
          IN <<91, 91>> \o g1 \o <<93, 91>> \o g2 \o <<93, 93>>

\* ------------------------------------------------------------ the render

\* UrlPair that keeps an alternate equal to the primary.
UrlPairKeepsAlternate(fields) ==
  LET given == retrieve_and_fixup_url(fields.given_url)
      resolved == retrieve_and_fixup_url(fields.resolved_url)
  IN [primary |-> IF Truthy(given) THEN given ELSE resolved,
      alternate |-> IF Truthy(given) THEN resolved ELSE None]

\* Lines 153-159: the primary and the alternate URL.
UrlPair(fields) ==
  LET given == retrieve_and_fixup_url(fields.given_url)
      resolved == retrieve_and_fixup_url(fields.resolved_url)
      primary == IF Truthy(given) THEN given ELSE resolved
      alt == IF Truthy(given) THEN resolved ELSE None
  IN [primary |-> primary,
      alternate |-> IF primary = alt THEN None ELSE alt]

\* TitlePair that prefers the resolved title.
TitlePairResolvedFirst(fields) ==
  LET given == Strip(fields.given_title)
      resolved == Strip(fields.resolved_title)
      primary == IF Truthy(resolved) THEN resolved ELSE given
      alt == IF Truthy(resolved) THEN given ELSE None
  IN [primary |-> primary,
      alternate |-> IF primary = alt THEN None ELSE alt]

\* Lines 161-167: the primary and the alternate title, before the fallback.
TitlePair(fields) ==
  LET given == Strip(fields.given_title)
      resolved == Strip(fields.resolved_title)
      primary == IF Truthy(given) THEN given ELSE resolved
      alt == IF Truthy(given) THEN resolved ELSE None
  IN [primary |-> primary,
      alternate |-> IF primary = alt THEN None ELSE alt]

\* Line 169: the title is empty, log_empty_title is called.
EmptyTitle(fields) == ~Truthy(TitlePair(fields).primary)

\* Lines 169-171: the heading's text.
Heading(fields) ==
  IF EmptyTitle(fields) THEN UrlPair(fields).primary
  ELSE TitlePair(fields).primary

\* One of lines 189-191.
Section(title, body) ==
  IF body # <<>> THEN title \o <<10, 10>> \o body \o <<10, 10>> ELSE <<>>

\* Lines 137-194: the content of the file of note note_id.
Content(note_id, fields, time_added) ==
  LET urls == UrlPair(fields)
      titles == TitlePair(fields)
      personal_notes == Strip(html_to_org(fields.personal_notes))
      summary == Strip(html_to_org(fields.summary))
      excerpt == Strip(html_to_org(fields.excerpt))
      ymd == FormatYmd(time_added)
  IN Concat(<<
       <<35, 43, 115, 101, 116, 117, 112, 102, 105, 108, 101, 58, 32, 99, 111,
         109, 109, 111, 110, 46, 115, 101, 116, 117, 112, 10>>,
       <<35, 43, 100, 97, 116, 101, 58, 32, 91>>,
       FormatOrgDate(time_added),
       <<93, 10>>,
       <<35, 43, 99, 111, 109, 109, 101, 110, 116, 58, 32, 68, 79, 32, 78, 79,
         84, 32, 69, 68, 73, 84, 32, 45, 32, 114, 117, 110, 32, 126, 97, 110,
         107, 105, 45, 97, 114, 116, 105, 99, 108, 101, 115, 45, 116, 111, 45,
         111, 114, 103, 126, 32, 116, 111, 32, 114, 101, 45, 101, 120, 112,
         111, 114, 116, 32, 102, 114, 111, 109, 32, 65, 110, 107, 105, 10>>,
       <<10, 42, 32>>,
       Format(Heading(fields)),
       <<10, 58, 80, 82, 79, 80, 69, 82, 84, 73, 69, 83, 58, 10, 58, 73, 68,
         58, 32, 97, 110, 107, 105, 95, 97, 114, 116, 105, 99, 108, 101, 95>>,
       Str(note_id),
       <<10, 58, 82, 79, 65, 77, 95, 82, 69, 70, 83, 58, 32>>,
       Format(urls.primary),
       IF Truthy(urls.alternate) THEN <<32>> \o urls.alternate ELSE <<>>,
       IF Truthy(titles.alternate)
       THEN <<10, 58, 82, 79, 65, 77, 95, 65, 76, 73, 65, 83, 69, 83, 58, 32,
              34>> \o titles.alternate \o <<34>>
       ELSE <<>>,
       <<10, 58, 69, 78, 68, 58, 10, 10>>,
       Section(<<42, 42, 32, 80, 101, 114, 115, 111, 110, 97, 108, 32, 78, 111,
                 116, 101, 115>>, personal_notes),
       Section(<<42, 42, 32, 83, 117, 109, 109, 97, 114, 121>>, summary),
       Section(<<42, 42, 32, 69, 120, 99, 101, 114, 112, 116>>, excerpt),
       <<91, 91, 114, 111, 97, 109, 58>>, ymd, <<93, 91>>, ymd,
       <<93, 93, 10>> >>)

\* ------------------------------------------------------------ the state

VARIABLES
  notes0,             \* the store as it was before the first run
  rendered0,          \* the notes that a run before this one has rendered
  notes,              \* the store: note id -> [fields, cards]
  fs,                 \* the output directory: note id -> {note_id}.org
  run,                \* which run of the program this is
  mainPc,             \* where main/_main stands
  exitStatus,         \* the process's exit status, -1 while it runs
  note_ids,           \* _main: response["result"] of findNotes
  note_infos,         \* _main: response["result"] of notesInfo
  pending,            \* _main: the notes the for loop has not reached yet
  threads,            \* _main: the threads array, 0 for None
  schedNi,            \* schedule_thread: ni (a note id), 0 for None
  schedI,             \* schedule_thread: i, counted from 1
  threads_done,       \* schedule_thread: threads_done
  wpc,                \* the thread of each note: where write_org_file stands
  time_added,         \* write_org_file: mod_time, then time_added
  content_encoded,    \* write_org_file: content_encoded
  empty_title_notes,  \* the module's list empty_title_notes
  log                 \* what each thread of this run has written to stderr
                      \* (0: the main thread, n: the thread of note n)

vars ==
  <<notes0, rendered0, notes, fs, run, mainPc, exitStatus, note_ids, note_infos,
    pending, threads, schedNi, schedI, threads_done, wpc, time_added, content_encoded,
    empty_title_notes, log>>

storeVars == <<notes0, rendered0, notes, fs, run>>

mainVars == <<mainPc, exitStatus, note_ids, note_infos, pending>>

schedVars == <<threads, schedNi, schedI, threads_done>>

\* ------------------------------------------------------- the environment

\* The cards of note n, when it has any.
CardsOf(n) == <<2 * n - 1, 2 * n>>

\* The store's modification time of card c (cardsModTime's "mod").
CardModTime(c) == IF c % 2 = 1 THEN 86400 + 60 * c ELSE 60 * c

\* The text fields of note n: no title at all, a given title, a resolved
\* title only, in turn; one URL; personal notes only.
TextFields(n) ==
  [given_title |-> IF n % 3 = 2 THEN <<32, 65, 32>> ELSE <<>>,
   resolved_title |-> IF n % 3 = 0 THEN <<66>> ELSE <<>>,
   given_url |-> <<117>> \o Str(n),
   resolved_url |-> IF n % 3 = 2 THEN <<117>> \o Str(n) ELSE <<>>,
   personal_notes |-> <<60, 112, 62, 72, 105, 60, 47, 112, 62>>,
   summary |-> <<>>,
   excerpt |-> <<>>]

\* The notes a store may hold under id n: time_added set (" 90 "), or empty
\* with cards or, the note's cards being gone, without.
NoteChoices(n) ==
  {[fields |-> [time_added |-> tc[1]] @@ TextFields(n), cards |-> tc[2]] :
     tc \in {<<(<<32, 57, 48, 32>>), CardsOf(n)>>,
             <<(<<>>), CardsOf(n)>>,
             <<(<<>>), (<<>>)>>}}

NoFile == [exists |-> FALSE, content |-> <<>>, mtime |-> 0, mode |-> 0]

\* What the output directory may hold for a note before the first run: no
\* file, an out-of-date file ("old\n") of mode 0o644 or 0o444, a file that
\* is not UTF-8.
FileChoices ==
  {NoFile,
   [exists |-> TRUE, content |-> <<111, 108, 100, 10>>, mtime |-> 0, mode |-> 420],
   [exists |-> TRUE, content |-> <<111, 108, 100, 10>>, mtime |-> 0, mode |-> 292],
   [exists |-> TRUE, content |-> <<255>>, mtime |-> 0, mode |-> 420]}

\* The owner may write a file of this mode (S_IWUSR, 0o200).
OwnerWritable(mode) == (mode \div 128) % 2 = 1

\* A record of the log: what was logged and, for a request, its action.
LogRec(kind, action) == [kind |-> kind, action |-> action]

\* Thread n writes these records to stderr.
Logs(n, entries) == log' = [log EXCEPT ![n] = @ \o entries]

\* The time a file written now gets as its mtime: each run of the program
\* is later than the files it finds and than the run before it.
Now == run

\* ---------------------------------------------------------------- Init

\* The state of a process that has just entered main().
ProcessInit ==
  /\ mainPc = "findNotes"
  /\ exitStatus = -1
  /\ note_ids = <<>>
  /\ note_infos = <<>>
  /\ pending = {}
  /\ threads = [i \in Slots |-> 0]
  /\ schedNi = 0
  /\ schedI = 1
  /\ threads_done = TRUE
  /\ wpc = [n \in NoteIds |-> "idle"]
  /\ time_added = [n \in NoteIds |-> 0]
  /\ content_encoded = [n \in NoteIds |-> <<>>]
  /\ empty_title_notes = <<>>
  /\ log = [n \in 0..MaxNotes |-> <<>>]

\* A note as the program leaves it, and its file before the first export
\* after an edit of the note: time_added set, its cards there, the file out
\* of date.
PlainNote(n) ==
  [fields |-> [time_added |-> <<32, 57, 48, 32>>] @@ TextFields(n),
   cards |-> CardsOf(n)]

PlainFile ==
  [exists |-> TRUE, content |-> <<111, 108, 100, 10>>, mtime |-> 0, mode |-> 420]

\* The first note of the store and its file are in any of the conditions
\* above, the others are plain; a process has just entered main().
Init ==
  /\ notes \in {f \in [NoteIds -> UNION {NoteChoices(n) : n \in NoteIds}] :
                  /\ f[1] \in NoteChoices(1)
                  /\ \A n \in NoteIds \ {1} : f[n] = PlainNote(n)}
  /\ fs \in {f \in [NoteIds -> FileChoices] :
               \A n \in NoteIds \ {1} : f[n] = PlainFile}
  /\ notes0 = notes
  /\ rendered0 = {}
  /\ run = 1
  /\ ProcessInit

\* -------------------------------------------------------- the scheduler

\* threading.Thread: the thread of note t has terminated, by returning from
\* write_org_file or by an exception raised in it.
Terminated(t) == wpc[t] \in {"finished", "failed"}

\* Thread.is_alive().
is_alive(t) == ~Terminated(t)

\* JoinSlot with the wait and the is_alive test left out: the slot is
\* emptied at once, whatever its thread does.
JoinSlotWithoutWaiting(i) == [returns |-> TRUE, alive |-> FALSE, slot |-> 0]

\* JoinSlot whose join gives up at once (a join with a timeout): it returns
\* whether or not the thread has terminated.
JoinSlotWithTimeout(i) ==
  [returns |-> TRUE,
   alive |-> is_alive(threads[i]),
   slot |-> IF is_alive(threads[i]) THEN threads[i] ELSE 0]

\* Lines 220-225 for the thread in slot i: thread.join() has no timeout, so
\* it returns only once the thread has terminated (returns); then the slot
\* is emptied unless the thread is alive (slot, alive).
JoinSlot(i) ==
  [returns |-> Terminated(threads[i]),
   alive |-> is_alive(threads[i]),
   slot |-> IF is_alive(threads[i]) THEN threads[i] ELSE 0]

\* Admits that gives up on the notes left once a thread has failed.
AdmitsUntilFailure(ni, slot) ==
  ni # 0 /\ slot = 0 /\ \A n \in NoteIds : wpc[n] # "failed"

\* Line 226: the note is started in slot i, whose value is now slot.
Admits(ni, slot) == ni # 0 /\ slot = 0

\* Calling schedule_thread(threads, ..., ni): lines 217-218.
CallSchedule(pc, ni, rest) ==
  /\ mainPc' = pc
  /\ schedNi' = ni
  /\ schedI' = 1
  /\ threads_done' = TRUE
  /\ pending' = rest

\* ScheduleReturns without the while loop of lines 299-300.
ScheduleReturnsWithoutDrain(result) ==
  IF mainPc = "schedule" /\ pending # {}
  THEN \E n \in pending : CallSchedule("schedule", n, pending \ {n})
  ELSE /\ mainPc' = "report"
       /\ UNCHANGED <<schedNi, schedI, threads_done, pending>>

\* Lines 297-300, after schedule_thread has returned result: the for loop
\* takes the next note of the shuffled list (any note not taken yet), or
\* the while loop calls schedule_thread without a note until it returns
\* False.
ScheduleReturns(result) ==
  IF mainPc = "schedule" /\ pending # {}
  THEN \E n \in pending : CallSchedule("schedule", n, pending \ {n})
  ELSE IF mainPc = "schedule" \/ result
  THEN CallSchedule("drain", 0, pending)
  ELSE /\ mainPc' = "report"
       /\ UNCHANGED <<schedNi, schedI, threads_done, pending>>

\* One pass of the loop of schedule_thread (lines 218-233), and line 234
\* when it is the last.
ScheduleStep ==
  /\ mainPc \in {"schedule", "drain"}
  /\ LET i == schedI
         joined == IF threads[i] # 0
                   THEN JoinSlot(i)
                   ELSE [returns |-> TRUE, alive |-> FALSE, slot |-> 0]
         done == threads_done /\ ~joined.alive
     IN /\ joined.returns
        /\ IF Admits(schedNi, joined.slot)
           THEN /\ threads' = [threads EXCEPT ![i] = schedNi]
                /\ wpc' = [wpc EXCEPT ![schedNi] = "start"]
                /\ ScheduleReturns(TRUE)
           ELSE /\ threads' = [threads EXCEPT ![i] = joined.slot]
                /\ UNCHANGED wpc
                /\ IF i < BATCH_SIZE
                   THEN /\ schedI' = i + 1
                        /\ threads_done' = done
                        /\ UNCHANGED <<mainPc, schedNi, pending>>
                   ELSE ScheduleReturns(~done)
  /\ UNCHANGED <<storeVars, exitStatus, note_ids, note_infos, time_added,
                 content_encoded, empty_title_notes, log>>

\* ------------------------------------------------------------ main, _main

\* Lines 63-67 of ankiconnect_request: the payload is logged and posted.
Payload(action) == LogRec("payload", action)

\* Lines 68-69: the warning for a response whose error is not null.
ResponseError(action) == LogRec("response_error", action)

\* An exception leaves _main: main re-raises it (lines 240-247) and the
\* interpreter exits with status 1.
MainRaises ==
  /\ mainPc' = "crashed"
  /\ exitStatus' = 1

\* Lines 273-284: findNotes answers with the ids of the notes.
FindNotesOk ==
  /\ mainPc = "findNotes"
  /\ Logs(0, <<Payload("findNotes")>>)
  /\ note_ids' = [n \in NoteIds |-> n]
  /\ mainPc' = "notesInfo"
  /\ UNCHANGED <<storeVars, exitStatus, note_infos, pending, schedVars, wpc,
                 time_added, content_encoded, empty_title_notes>>

\* FindNotesError in which ankiconnect_request raises on the error.
FindNotesErrorRaises ==
  /\ mainPc = "findNotes"
  /\ Logs(0, <<Payload("findNotes"), ResponseError("findNotes")>>)
  /\ MainRaises
  /\ UNCHANGED <<storeVars, note_ids, note_infos, pending, schedVars, wpc,
                 time_added, content_encoded, empty_title_notes>>

\* Lines 273-284: findNotes answers with an error and a null result.
FindNotesError ==
  /\ mainPc = "findNotes"
  /\ Logs(0, <<Payload("findNotes"), ResponseError("findNotes")>>)
  /\ note_ids' = None
  /\ mainPc' = "notesInfo"
  /\ UNCHANGED <<storeVars, exitStatus, note_infos, pending, schedVars, wpc,
                 time_added, content_encoded, empty_title_notes>>

\* Line 66 raises (no connection, timeout, a body that is not JSON).
FindNotesRaises ==
  /\ mainPc = "findNotes"
  /\ Logs(0, <<Payload("findNotes")>>)
  /\ MainRaises
  /\ UNCHANGED <<storeVars, note_ids, note_infos, pending, schedVars, wpc,
                 time_added, content_encoded, empty_title_notes>>

\* Lines 285-298: notesInfo answers with the notes; they are shuffled and
\* the first is handed to schedule_thread.
NotesInfoOk ==
  /\ mainPc = "notesInfo"
  /\ note_ids # None
  /\ Logs(0, <<Payload("notesInfo")>>)
  /\ note_infos' = notes
  /\ threads' = [i \in Slots |-> 0]
  /\ \E n \in NoteIds : CallSchedule("schedule", n, NoteIds \ {n})
  /\ UNCHANGED <<storeVars, exitStatus, note_ids, wpc, time_added,
                 content_encoded, empty_title_notes>>

\* NotesInfoError in which the None result is used as a list of notes
\* (TypeError).
NotesInfoErrorCrashes ==
  /\ mainPc = "notesInfo"
  /\ Logs(0, <<Payload("notesInfo"), ResponseError("notesInfo")>>)
  /\ MainRaises
  /\ UNCHANGED <<storeVars, note_ids, note_infos, pending, schedVars, wpc,
                 time_added, content_encoded, empty_title_notes>>

\* Lines 285-294: notesInfo answers with an error and a null result (the
\* only answer to a request whose notes are null): note_infos is None and
\* the scheduling is skipped.
NotesInfoError ==
  /\ mainPc = "notesInfo"
  /\ Logs(0, <<Payload("notesInfo"), ResponseError("notesInfo")>>)
  /\ note_infos' = <<>>
  /\ mainPc' = "report"
  /\ UNCHANGED <<storeVars, exitStatus, note_ids, pending, schedVars, wpc,
                 time_added, content_encoded, empty_title_notes>>

NotesInfoRaises ==
  /\ mainPc = "notesInfo"
  /\ Logs(0, <<Payload("notesInfo")>>)
  /\ MainRaises
  /\ UNCHANGED <<storeVars, note_ids, note_infos, pending, schedVars, wpc,
                 time_added, content_encoded, empty_title_notes>>

\* Lines 301-302, and the return of _main and main: exit status 0.
Report ==
  /\ mainPc = "report"
  /\ Logs(0, IF empty_title_notes # <<>>
              THEN <<LogRec("no_title_report", "")>>
              ELSE <<>>)
  /\ mainPc' = "done"
  /\ exitStatus' = 0
  /\ UNCHANGED <<storeVars, note_ids, note_infos, pending, schedVars, wpc,
                 time_added, content_encoded, empty_title_notes>>

\* The program is run again, on the same store and output directory.
NewRun ==
  /\ mainPc \in {"done", "crashed"}
  /\ run < MaxRuns
  /\ run' = run + 1
  /\ mainPc' = "findNotes"
  /\ exitStatus' = -1
  /\ note_ids' = <<>>
  /\ note_infos' = <<>>
  /\ pending' = {}
  /\ threads' = [i \in Slots |-> 0]
  /\ schedNi' = 0
  /\ schedI' = 1
  /\ threads_done' = TRUE
  /\ wpc' = [n \in NoteIds |-> "idle"]
  /\ time_added' = [n \in NoteIds |-> 0]
  /\ rendered0' = rendered0 \cup {n \in NoteIds : content_encoded[n] # <<>>}
  /\ content_encoded' = [n \in NoteIds |-> <<>>]
  /\ empty_title_notes' = <<>>
  /\ log' = [n \in 0..MaxNotes |-> <<>>]
  /\ UNCHANGED <<notes0, notes, fs>>

\* --------------------------------------------------------- write_org_file

\* An exception leaves write_org_file: threading's excepthook prints the
\* traceback to stderr and the thread ends; nothing else learns of it.
ThreadRaises(n, entries) ==
  /\ wpc' = [wpc EXCEPT ![n] = "failed"]
  /\ Logs(n, entries \o <<LogRec("traceback", "")>>)

\* Start that asks for the cards' times whatever time_added holds.
StartAlwaysBackfills(n) ==
  /\ wpc[n] = "start"
  /\ wpc' = [wpc EXCEPT ![n] = "cardsModTime"]
  /\ Logs(n, <<LogRec("output_file", "")>>)
  /\ UNCHANGED <<storeVars, mainVars, schedVars, time_added, content_encoded,
                 empty_title_notes>>

\* Lines 105-113: the note's own time_added is used when it is not empty.
Start(n) ==
  /\ wpc[n] = "start"
  /\ LET time_added_str == Strip(note_infos[n].fields.time_added)
         entry == LogRec("output_file", "")
     IN IF ~Truthy(time_added_str)
        THEN /\ wpc' = [wpc EXCEPT ![n] = "cardsModTime"]
             /\ Logs(n, <<entry>>)
             /\ UNCHANGED time_added
        ELSE IF ParseInt(time_added_str) = -1
        THEN /\ ThreadRaises(n, <<entry>>)
             /\ UNCHANGED time_added
        ELSE /\ wpc' = [wpc EXCEPT ![n] = "render"]
             /\ Logs(n, <<entry>>)
             /\ time_added' = [time_added EXCEPT ![n] = ParseInt(time_added_str)]
  /\ UNCHANGED <<storeVars, mainVars, schedVars, content_encoded,
                 empty_title_notes>>

\* The "mod" of each card of the list, as cardsModTime answers.
ModTimes(cards) == [i \in 1..Len(cards) |-> CardModTime(cards[i])]

\* ModTime that takes the first card's time, not the least.
ModTimeOfFirstCard(cards) ==
  IF cards = <<>> THEN -1 ELSE ModTimes(cards)[1]

\* ModTime that makes up a time (the epoch) for a note without cards.
ModTimeInvented(cards) ==
  IF cards = <<>> THEN 0 ELSE Min(ModTimes(cards))

\* Line 122: mod_time.
ModTime(cards) == Min(ModTimes(cards))

\* Lines 114-122: cardsModTime answers; min() raises on an empty list.
CardsModTimeOk(n) ==
  /\ wpc[n] = "cardsModTime"
  /\ LET mod_time == ModTime(note_infos[n].cards)
         entry == Payload("cardsModTime")
     IN IF mod_time = -1
        THEN /\ ThreadRaises(n, <<entry>>)
             /\ UNCHANGED time_added
        ELSE /\ wpc' = [wpc EXCEPT ![n] = "updateNoteFields"]
             /\ Logs(n, <<entry>>)
             /\ time_added' = [time_added EXCEPT ![n] = mod_time]
  /\ UNCHANGED <<storeVars, mainVars, schedVars, content_encoded,
                 empty_title_notes>>

\* Lines 114-122: cardsModTime answers with an error and a null result,
\* which line 122 cannot iterate (TypeError).
CardsModTimeError(n) ==
  /\ wpc[n] = "cardsModTime"
  /\ ThreadRaises(n, <<Payload("cardsModTime"),
                       ResponseError("cardsModTime")>>)
  /\ UNCHANGED <<storeVars, mainVars, schedVars, time_added, content_encoded,
                 empty_title_notes>>

CardsModTimeRaises(n) ==
  /\ wpc[n] = "cardsModTime"
  /\ ThreadRaises(n, <<Payload("cardsModTime")>>)
  /\ UNCHANGED <<storeVars, mainVars, schedVars, time_added, content_encoded,
                 empty_title_notes>>

\* Lines 123-136: the store sets the note's time_added to str(mod_time).
UpdateNoteFieldsOk(n) ==
  /\ wpc[n] = "updateNoteFields"
  /\ notes' = [notes EXCEPT ![n].fields.time_added = Str(time_added[n])]
  /\ wpc' = [wpc EXCEPT ![n] = "render"]
  /\ Logs(n, <<Payload("updateNoteFields")>>)
  /\ UNCHANGED <<notes0, rendered0, fs, run, mainVars, schedVars, time_added,
                 content_encoded, empty_title_notes>>

\* Lines 123-136: the store refuses the update and answers with an error;
\* the response is not looked at and line 136 is next.
UpdateNoteFieldsError(n) ==
  /\ wpc[n] = "updateNoteFields"
  /\ wpc' = [wpc EXCEPT ![n] = "render"]
  /\ Logs(n, <<Payload("updateNoteFields"), ResponseError("updateNoteFields")>>)
  /\ UNCHANGED <<storeVars, mainVars, schedVars, time_added, content_encoded,
                 empty_title_notes>>

UpdateNoteFieldsRaises(n) ==
  /\ wpc[n] = "updateNoteFields"
  /\ ThreadRaises(n, <<Payload("updateNoteFields")>>)
  /\ UNCHANGED <<storeVars, mainVars, schedVars, time_added, content_encoded,
                 empty_title_notes>>

\* Render whose append reads the list before the other threads' appends and
\* writes it back with its own note: their appends are lost.
RenderOverwritesList(n) ==
  /\ wpc[n] = "render"
  /\ LET fields == note_infos[n].fields
     IN /\ content_encoded' =
             [content_encoded EXCEPT
                ![n] = Utf8Encode(Content(n, fields, time_added[n]))]
        /\ IF EmptyTitle(fields)
           THEN /\ empty_title_notes' = <<n>>
                /\ Logs(n, <<LogRec("empty_title", "")>>)
           ELSE UNCHANGED <<empty_title_notes, log>>
  /\ wpc' = [wpc EXCEPT ![n] = "write"]
  /\ UNCHANGED <<storeVars, mainVars, schedVars, time_added>>

\* Lines 137-196: the three fields are converted, the title and the URL
\* resolved (log_empty_title, lines 99-101, when there is no title) and the
\* content is assembled and encoded.
Render(n) ==
  /\ wpc[n] = "render"
  /\ LET fields == note_infos[n].fields
     IN /\ content_encoded' =
             [content_encoded EXCEPT
                ![n] = Utf8Encode(Content(n, fields, time_added[n]))]
        /\ IF EmptyTitle(fields)
           THEN /\ empty_title_notes' = Append(empty_title_notes, n)
                /\ Logs(n, <<LogRec("empty_title", "")>>)
           ELSE UNCHANGED <<empty_title_notes, log>>
  /\ wpc' = [wpc EXCEPT ![n] = "write"]
  /\ UNCHANGED <<storeVars, mainVars, schedVars, time_added>>

\* Lines 140-142: pandoc exits with a status other than 0, or takes more
\* than 5 seconds.
RenderRaises(n) ==
  /\ wpc[n] = "render"
  /\ ThreadRaises(n, <<>>)
  /\ UNCHANGED <<storeVars, mainVars, schedVars, time_added, content_encoded,
                 empty_title_notes>>

\* Lines 199-204: old_content, None when there is no file.
OldContent(file) == IF file.exists THEN file.content ELSE None

\* Unchanged that never holds: the file is rewritten every time.
UnchangedNever(old_content, new_content) == FALSE

\* Line 205: the file is left alone.
Unchanged(old_content, new_content) == old_content = new_content

\* Lines 209-211: the f-string decodes old_content whatever the log level;
\* None has no decode and bytes that are not UTF-8 do not decode.
DebugOldContentRaises(old_content) ==
  old_content = None \/ ~Utf8Valid(old_content)

\* Line 212: open(output_file, "wb") raises: the file is there and its
\* owner may not write it.
OpenForWriteRaises(file) == file.exists /\ ~OwnerWritable(file.mode)

\* Lines 212-213: the file after the write. A new file gets mode 0o644
\* (0o666 under the umask 0o022).
Written(file, new_content, now) ==
  [exists |-> TRUE,
   content |-> new_content,
   mtime |-> now,
   mode |-> IF file.exists THEN file.mode ELSE 420]

\* Lines 198-213: the write stage.
Write(n) ==
  /\ wpc[n] = "write"
  /\ LET old_content == OldContent(fs[n])
     IN IF Unchanged(old_content, content_encoded[n])
        THEN /\ wpc' = [wpc EXCEPT ![n] = "finished"]
             /\ Logs(n, <<LogRec("unchanged", "")>>)
             /\ UNCHANGED fs
        ELSE IF DebugOldContentRaises(old_content) \/ OpenForWriteRaises(fs[n])
        THEN /\ ThreadRaises(n, <<LogRec("changed", "")>>)
             /\ UNCHANGED fs
        ELSE /\ wpc' = [wpc EXCEPT ![n] = "finished"]
             /\ Logs(n, <<LogRec("changed", "")>>)
             /\ fs' = [fs EXCEPT ![n] = Written(fs[n], content_encoded[n], Now)]
  /\ UNCHANGED <<notes0, rendered0, notes, run, mainVars, schedVars, time_added,
                 content_encoded, empty_title_notes>>

\* ------------------------------------------------------------------ Next

Next ==
  \/ FindNotesOk
  \/ FindNotesError
  \/ FindNotesRaises
  \/ NotesInfoOk
  \/ NotesInfoError
  \/ NotesInfoRaises
  \/ ScheduleStep
  \/ Report
  \/ NewRun
  \/ \E n \in NoteIds :
       \/ Start(n)
       \/ CardsModTimeOk(n)
       \/ CardsModTimeError(n)
       \/ CardsModTimeRaises(n)
       \/ UpdateNoteFieldsOk(n)
       \/ UpdateNoteFieldsError(n)
       \/ UpdateNoteFieldsRaises(n)
       \/ Render(n)
       \/ RenderRaises(n)
       \/ Write(n)

Spec == Init /\ [][Next]_vars

\* ------------------------------------------ the render, over more fields

\* The titles a note may have: none, " A " or a title that is not ASCII as
\* the given one; none, "B" or "A" as the resolved one.
TitleChoices ==
  {[given_title |-> g, resolved_title |-> r] :
     g \in {<<>>, <<32, 65, 32>>, <<233>>}, r \in {<<>>, <<66>>, <<65>>}}

\* The URLs a note may have: none, "u2" or <a href="u2">t</a> as the given
\* one; none, " u2 " or "v" as the resolved one.
UrlChoices ==
  {[given_url |-> g, resolved_url |-> r] :
     g \in {<<>>, <<117, 50>>,
            <<60, 97, 32, 104, 114, 101, 102, 61, 34, 117, 50, 34, 62, 116,
              60, 47, 97, 62>>},
     r \in {<<>>, <<32, 117, 50, 32>>, <<118>>}}

\* The first note has any of the titles; the second has no title and any of
\* the URLs; the others are plain, and their files are out of date or not
\* there. Every note has its time_added.
RenderInit ==
  /\ \E t \in TitleChoices, u \in UrlChoices :
       notes = [n \in NoteIds |->
                  IF n = 1 THEN [PlainNote(n) EXCEPT !.fields = t @@ @]
                  ELSE IF n = 2
                  THEN [PlainNote(n) EXCEPT
                          !.fields = [given_title |-> <<>>,
                                      resolved_title |-> <<>>] @@ u @@ @]
                  ELSE PlainNote(n)]
  /\ fs \in {f \in [NoteIds -> {PlainFile, NoFile}] :
               f[1] = PlainFile /\ f[2] = PlainFile}
  /\ notes0 = notes
  /\ rendered0 = {}
  /\ run = 1
  /\ ProcessInit

\* One run in which the store answers every request and pandoc succeeds.
RenderNext ==
  \/ FindNotesOk
  \/ NotesInfoOk
  \/ ScheduleStep
  \/ Report
  \/ \E n \in NoteIds :
       \/ Start(n)
       \/ Render(n)
       \/ Write(n)

RenderSpec == RenderInit /\ [][RenderNext]_vars

\* Every note is plain; its file is out of date or not there.
ScheduleInit ==
  /\ notes = [n \in NoteIds |-> PlainNote(n)]
  /\ fs \in [NoteIds -> {PlainFile, NoFile}]
  /\ notes0 = notes
  /\ rendered0 = {}
  /\ run = 1
  /\ ProcessInit

\* The main thread keeps running: when it can take a step it takes one (a
\* join returns once its thread has terminated). Every started pipeline
\* terminates, by returning or by an exception: no thread stays for ever
\* inside write_org_file, each of whose stages can always be taken.
FairSpec ==
  /\ ScheduleInit
  /\ [][RenderNext]_vars
  /\ WF_vars(FindNotesOk \/ NotesInfoOk \/ ScheduleStep \/ Report)
  /\ \A n \in NoteIds : []<>(wpc[n] \notin {"start", "render", "write"})

\* ---------------------------------------------------------- the claims

HasLogged(n, rec) == \E k \in 1..Len(log[n]) : log[n][k] = rec

\* The pipelines that have been started and have not terminated.
Active == {n \in NoteIds : wpc[n] \notin {"idle", "finished", "failed"}}

\* The write stage of note n ends in this step.
WriteStageEnds(n) == wpc[n] = "write" /\ wpc'[n] # "write"

\* C1: in every write stage the file is written if and only if the rendered
\* bytes differ from the bytes in the file (none when there is no file), and
\* when they differ the file then holds the rendered bytes.
C1_WrittenIffDiffers ==
  [][\A n \in NoteIds :
       WriteStageEnds(n) =>
         LET differs == OldContent(fs[n]) # content_encoded[n]
         IN /\ (fs'[n] # fs[n]) <=> differs
            /\ differs => /\ fs'[n].exists
                          /\ fs'[n].content = content_encoded[n]]_vars

\* C2: a write stage that finds no file creates it with the rendered bytes
\* and the pipeline finishes normally.
C2_AbsentFileIsCreated ==
  [][\A n \in NoteIds :
       (WriteStageEnds(n) /\ ~fs[n].exists) =>
         /\ wpc'[n] = "finished"
         /\ fs'[n].exists
         /\ fs'[n].content = content_encoded[n]]_vars

\* C3: a write stage whose rendered bytes equal the file's bytes changes no
\* file in any way (content, mtime, mode) and the pipeline finishes.
C3_UnchangedTouchesNothing ==
  [][\A n \in NoteIds :
       (WriteStageEnds(n) /\ OldContent(fs[n]) = content_encoded[n]) =>
         /\ fs' = fs
         /\ wpc'[n] = "finished"]_vars

\* A pipeline has finished as Unchanged on a file written in an earlier run,
\* whose mtime is still that run's.
C3_Witness ==
  \E n \in NoteIds :
    /\ wpc[n] = "finished"
    /\ HasLogged(n, LogRec("unchanged", ""))
    /\ fs[n].content = content_encoded[n]
    /\ fs[n].mtime >= 1
    /\ fs[n].mtime < Now

\* C4: at most BATCH_SIZE pipelines are started and not yet terminated.
C4_AtMostKActive == Cardinality(Active) <= BATCH_SIZE

\* More notes than there are slots have been started and one is running.
C4_Witness ==
  /\ Cardinality({n \in NoteIds : wpc[n] # "idle"}) > BATCH_SIZE
  /\ Active # {}

\* C5: schedule_thread, called with a note, waits for a running pipeline
\* only when every slot holds a running pipeline.
C5_WaitsOnlyWhenFull ==
  (mainPc = "schedule" /\ threads[schedI] # 0 /\ is_alive(threads[schedI])) =>
    \A i \in Slots : threads[i] # 0 /\ is_alive(threads[i])

\* C6: once the drain loop has exited (the report is next, or _main has
\* returned) no started pipeline is still running and every slot is empty.
C6_DrainedBeforeReport ==
  mainPc \in {"report", "done"} =>
    /\ Active = {}
    /\ \A i \in Slots : threads[i] = 0

\* The drain loop has exited after every note was started, one at least
\* having finished.
C6_Witness ==
  /\ mainPc = "report"
  /\ \A n \in NoteIds : Terminated(n)
  /\ \E n \in NoteIds : wpc[n] = "finished"

\* C7: when a pipeline has failed, the run ends with an exit status other
\* than 0 or the main thread reports the failure after the batch.
C7_FailureSurfaces ==
  (mainPc = "done" /\ \E n \in NoteIds : wpc[n] = "failed") =>
    \/ exitStatus # 0
    \/ \E k \in 1..Len(log[0]) :
         log[0][k].kind \in {"traceback", "failed_notes_report"}

\* C8: whichever pipelines fail, once the notes are fetched and the
\* scheduler has returned for the last time every note has been started and
\* its pipeline has run to its end.
C8_FailureStopsNoOtherNote ==
  (note_infos # <<>> /\ mainPc \notin {"schedule", "drain"}) =>
    \A n \in NoteIds : Terminated(n)

\* A run has ended in which a pipeline failed and another finished.
C8_Witness ==
  /\ mainPc = "done"
  /\ \E n \in NoteIds : wpc[n] = "failed"
  /\ \E n \in NoteIds : wpc[n] = "finished"

\* t is the least modification time of the cards.
IsLeastModTime(t, cards) ==
  /\ \E i \in 1..Len(cards) : t = CardModTime(cards[i])
  /\ \A i \in 1..Len(cards) : t <= CardModTime(cards[i])

\* C9: for a note whose time_added was empty and that has cards, the time
\* used is the least modification time of its cards; what is written back to
\* the store is that time; and a pipeline that finds the field filled in
\* uses the same time and sends no cardsModTime request.
C9_BackfillDeterminism ==
  \A n \in NoteIds :
    (Strip(notes0[n].fields.time_added) = <<>> /\ notes0[n].cards # <<>>) =>
      /\ wpc[n] \in {"updateNoteFields", "render", "write", "finished"} =>
           IsLeastModTime(time_added[n], notes0[n].cards)
      /\ notes[n].fields.time_added # notes0[n].fields.time_added =>
           IsLeastModTime(ParseInt(Strip(notes[n].fields.time_added)),
                          notes0[n].cards)
      /\ (wpc[n] \notin {"idle", "start"}
            /\ Strip(note_infos[n].fields.time_added) # <<>>) =>
           ~HasLogged(n, Payload("cardsModTime"))

\* In the second run a pipeline has finished for a note whose time_added the
\* first run filled in.
C9_Witness ==
  /\ run = 2
  /\ \E n \in NoteIds :
       /\ Strip(notes0[n].fields.time_added) = <<>>
       /\ wpc[n] = "finished"
       /\ Strip(note_infos[n].fields.time_added) # <<>>
       /\ IsLeastModTime(time_added[n], notes0[n].cards)

\* C10: a pipeline whose updateNoteFields request was answered with an error
\* renders nothing and does not reach the write stage.
C10_UpdateErrorAborts ==
  \A n \in NoteIds :
    HasLogged(n, ResponseError("updateNoteFields")) =>
      wpc[n] \notin {"write", "finished"}


\* The card-time lookup of note n has failed: the request was sent for a
\* note without cards, or was answered with an error.
LookupFailed(n) ==
  /\ HasLogged(n, Payload("cardsModTime"))
  /\ \/ note_infos[n].cards = <<>>
     \/ HasLogged(n, ResponseError("cardsModTime"))

\* C11: when the card-time lookup of a note with empty time_added fails, the
\* pipeline has failed, no updateNoteFields request was sent, the store still
\* holds the empty field, no time was chosen, nothing was rendered and the
\* file was not written in this run.
C11_LookupFailureFailsPipeline ==
  \A n \in NoteIds :
    LookupFailed(n) =>
      /\ wpc[n] = "failed"
      /\ ~HasLogged(n, Payload("updateNoteFields"))
      /\ notes[n].fields.time_added = note_infos[n].fields.time_added
      /\ time_added[n] = 0
      /\ content_encoded[n] = <<>>
      /\ fs[n].mtime # Now

\* The pipeline of a note without cards has ended after its cardsModTime
\* request.
C11_Witness ==
  \E n \in NoteIds :
    /\ LookupFailed(n)
    /\ note_infos[n].cards = <<>>
    /\ Strip(note_infos[n].fields.time_added) = <<>>
    /\ Terminated(n)

\* The requests thread n has sent, in order.
Requests(n) == SelectSeq(log[n], LAMBDA r : r.kind = "payload")

\* notes[n] differs from notes0[n] in the field time_added at most.
OnlyTimeAddedDiffers(n) ==
  notes[n] = [notes0[n] EXCEPT !.fields.time_added = notes[n].fields.time_added]

\* C12: the store differs from what it was in the field time_added only, and
\* only for notes whose time_added was empty; the main thread sends findNotes
\* and notesInfo only; a pipeline sends nothing when time_added is set, and
\* otherwise cardsModTime and then, at most once, updateNoteFields.
C12_OnlyTimeAddedWrittenBack ==
  /\ \A k \in 1..Len(Requests(0)) :
       Requests(0)[k].action \in {"findNotes", "notesInfo"}
  /\ \A n \in NoteIds :
       /\ OnlyTimeAddedDiffers(n)
       /\ notes[n] # notes0[n] => Strip(notes0[n].fields.time_added) = <<>>
       /\ Requests(n) # <<>> =>
            /\ Strip(note_infos[n].fields.time_added) = <<>>
            /\ Requests(n) \in
                 {<<Payload("cardsModTime")>>,
                  <<Payload("cardsModTime"), Payload("updateNoteFields")>>}

\* One pipeline has written time_added back and another has finished without
\* a request.
C12_Witness ==
  /\ \E n \in NoteIds :
       /\ HasLogged(n, Payload("updateNoteFields"))
       /\ notes[n] # notes0[n]
  /\ \E n \in NoteIds :
       /\ wpc[n] = "finished"
       /\ Requests(n) = <<>>

\* No write bit (0o222) is set in the mode.
NoWriteBits(mode) ==
  /\ (mode \div 128) % 2 = 0
  /\ (mode \div 16) % 2 = 0
  /\ (mode \div 2) % 2 = 0

\* C13: in every write stage that finds other bytes in an existing file, the
\* file is written even if its owner could not write it, and after every
\* write of a file no write bit is set in its mode.
C13_WrittenFileIsReadOnly ==
  [][\A n \in NoteIds :
       /\ (WriteStageEnds(n) /\ fs[n].exists /\ Utf8Valid(fs[n].content)
             /\ fs[n].content # content_encoded[n]) =>
            fs'[n].content = content_encoded[n]
       /\ fs'[n] # fs[n] => NoWriteBits(fs'[n].mode)]_vars

\* The time a note's pipeline is to use, going by the store as it was before
\* the first run: its time_added, or the least modification time of its
\* cards.
TimeAdded0(n) ==
  IF Strip(notes0[n].fields.time_added) # <<>>
  THEN ParseInt(Strip(notes0[n].fields.time_added))
  ELSE CHOOSE t \in {CardModTime(notes0[n].cards[i]) :
                       i \in 1..Len(notes0[n].cards)} :
         IsLeastModTime(t, notes0[n].cards)

\* C16: in every run a pipeline renders, for the same note fields, the bytes
\* that the store as it was before the first run determines; and when a run
\* before has rendered the note, the write stage ends as Unchanged: the
\* pipeline finishes and no file has changed.
C16_SecondRunIsNoOp ==
  [][\A n \in NoteIds :
       WriteStageEnds(n) =>
         /\ note_infos[n].fields =
              [notes0[n].fields EXCEPT
                 !.time_added = note_infos[n].fields.time_added]
         /\ content_encoded[n] =
              Utf8Encode(Content(n, notes0[n].fields, TimeAdded0(n)))
         /\ n \in rendered0 =>
              /\ wpc'[n] = "finished"
              /\ HasLogged(n, LogRec("unchanged", ""))'
              /\ fs' = fs]_vars

\* What thread n writes to its log in this step.
Appended(n) == SubSeq(log'[n], Len(log[n]) + 1, Len(log'[n]))

\* Thread n logs, in this step, the error of a response to this action.
LogsResponseError(n, action) ==
  \E k \in 1..Len(Appended(n)) : Appended(n)[k] = ResponseError(action)

\* C17: one call of ankiconnect_request sends one request; an error in the
\* response is logged after the request it answers, and the caller goes on
\* with the response: _main with note_ids None after findNotes and past its
\* loops after notesInfo, write_org_file to line 136 after updateNoteFields.
\* After cardsModTime it is the caller's line 122 that raises, once the error
\* is logged.
C17_ErrorIsLoggedNotRaised ==
  [][\A n \in 0..MaxNotes :
       /\ Len(SelectSeq(Appended(n), LAMBDA r : r.kind = "payload")) <= 1
       /\ \A k \in 1..Len(Appended(n)) :
            Appended(n)[k].kind = "response_error" =>
              /\ k > 1
              /\ Appended(n)[k - 1] = Payload(Appended(n)[k].action)
       /\ LogsResponseError(n, "findNotes") =>
            /\ mainPc' = "notesInfo"
            /\ note_ids' = None
            /\ exitStatus' = -1
       /\ LogsResponseError(n, "notesInfo") =>
            /\ mainPc' = "report"
            /\ exitStatus' = -1
       /\ LogsResponseError(n, "updateNoteFields") =>
            /\ wpc'[n] = "render"
            /\ time_added'[n] = time_added[n]
       /\ LogsResponseError(n, "cardsModTime") =>
            Appended(n) = <<Payload("cardsModTime"),
                            ResponseError("cardsModTime"),
                            LogRec("traceback", "")>>]_vars

\* _main has received the response of findNotes, an error, and stands before
\* notesInfo.
C17_Witness ==
  /\ mainPc = "notesInfo"
  /\ note_ids = None
  /\ log[0] = <<Payload("findNotes"), ResponseError("findNotes")>>

\* C18 as stated: a run in which findNotes or notesInfo was answered with an
\* error does not complete normally.
C18_ErrorCrashesRun ==
  (\/ HasLogged(0, ResponseError("findNotes"))
   \/ HasLogged(0, ResponseError("notesInfo"))) =>
    mainPc # "done"

\* C18, amended: after an error of findNotes, note_ids is None and notesInfo
\* is still requested, the run ending with an exception only if that request
\* raises; after an error of notesInfo no pipeline is started, no file is
\* written and the run completes normally, with exit status 0.
C18_ErrorEndsRunNormally ==
  /\ HasLogged(0, ResponseError("findNotes")) =>
       /\ note_ids = None
       /\ mainPc # "findNotes" /\ mainPc # "schedule" /\ mainPc # "drain"
       /\ mainPc = "crashed" => log[0][Len(log[0])] = Payload("notesInfo")
  /\ HasLogged(0, ResponseError("notesInfo")) =>
       /\ mainPc \in {"report", "done"}
       /\ exitStatus = (IF mainPc = "done" THEN 0 ELSE -1)
       /\ \A n \in NoteIds : wpc[n] = "idle" /\ fs[n].mtime # Now

\* A run has completed normally after errors of findNotes and notesInfo.
C18_Witness ==
  /\ mainPc = "done"
  /\ exitStatus = 0
  /\ HasLogged(0, ResponseError("findNotes"))
  /\ HasLogged(0, ResponseError("notesInfo"))

\* The indices at which the lines of b start.
LineStarts(b) == {1} \cup {i + 1 : i \in {j \in 1..Len(b) : b[j] = 10}}

\* The k-th line of b, without its newline.
Line(b, k) ==
  LET start == CHOOSE s \in LineStarts(b) :
                 Cardinality({t \in LineStarts(b) : t < s}) = k - 1
      end == CHOOSE j \in start..Len(b) :
               b[j] = 10 /\ \A m \in start..(j - 1) : b[m] # 10
  IN SubSeq(b, start, end - 1)

\* How many times n is in the list empty_title_notes.
EmptyTitleCount(n) ==
  Cardinality({k \in 1..Len(empty_title_notes) : empty_title_notes[k] = n})

\* The URL of the note: the given URL, or else the resolved one, each as
\* retrieve_and_fixup_url returns it.
PrimaryUrl(fields) ==
  IF retrieve_and_fixup_url(fields.given_url) # None
  THEN retrieve_and_fixup_url(fields.given_url)
  ELSE retrieve_and_fixup_url(fields.resolved_url)

\* The URL that was not chosen.
OtherUrl(fields) ==
  IF retrieve_and_fixup_url(fields.given_url) # None
  THEN retrieve_and_fixup_url(fields.resolved_url)
  ELSE retrieve_and_fixup_url(fields.given_url)

\* C14: the heading (the fifth line of the file) of a rendered note is "* "
\* and the trimmed given_title, or else the trimmed resolved_title, or else
\* the primary URL; and the note is in the empty-title list, once, exactly
\* when both titles are empty.
C14_TitleResolution ==
  \A n \in NoteIds :
    wpc[n] = "write" =>
      LET fields == note_infos[n].fields
          given == Strip(fields.given_title)
          resolved == Strip(fields.resolved_title)
          heading == Line(content_encoded[n], 5)
      IN /\ given # <<>> => heading = <<42, 32>> \o Utf8Encode(given)
         /\ (given = <<>> /\ resolved # <<>>) =>
              heading = <<42, 32>> \o Utf8Encode(resolved)
         /\ (given = <<>> /\ resolved = <<>>) =>
              /\ heading = <<42, 32>> \o Utf8Encode(Format(PrimaryUrl(fields)))
              /\ EmptyTitleCount(n) = 1
         /\ (given # <<>> \/ resolved # <<>>) => EmptyTitleCount(n) = 0

\* A note whose given title is not ASCII and a note without a title have
\* been rendered, and a third whose title is the resolved one.
C14_Witness ==
  /\ mainPc = "report"
  /\ \E n \in NoteIds :
       /\ Strip(note_infos[n].fields.given_title) = <<233>>
       /\ Line(content_encoded[n], 5) = <<42, 32, 195, 169>>
  /\ \E n \in NoteIds :
       /\ EmptyTitleCount(n) = 1
       /\ wpc[n] = "finished"
  /\ \E n \in NoteIds :
       /\ Strip(note_infos[n].fields.given_title) = <<>>
       /\ Line(content_encoded[n], 5) = <<42, 32, 66>>

\* C15: the ROAM_REFS line (the eighth) of a rendered note holds the primary
\* URL and then, after a space, the URL not chosen, unless that one is empty
\* or equal to the primary; the next line is the ROAM_ALIASES line with the
\* title not chosen, or, when that one is empty or equal to the primary
\* title, the :END: line.
C15_AlternateSuppression ==
  \A n \in NoteIds :
    wpc[n] = "write" =>
      LET fields == note_infos[n].fields
          given == Strip(fields.given_title)
          resolved == Strip(fields.resolved_title)
          title == IF given # <<>> THEN given ELSE resolved
          other_title == IF given # <<>> THEN resolved ELSE given
          url == PrimaryUrl(fields)
          other_url == OtherUrl(fields)
      IN /\ Line(content_encoded[n], 8) =
              <<58, 82, 79, 65, 77, 95, 82, 69, 70, 83, 58, 32>>
                \o Utf8Encode(Format(url))
                \o (IF other_url # None /\ other_url # url
                    THEN <<32>> \o Utf8Encode(other_url)
                    ELSE <<>>)
         /\ Line(content_encoded[n], 9) =
              (IF other_title # <<>> /\ other_title # title
               THEN <<58, 82, 79, 65, 77, 95, 65, 76, 73, 65, 83, 69, 83, 58,
                      32, 34>> \o Utf8Encode(other_title) \o <<34>>
               ELSE <<58, 69, 78, 68, 58>>)

\* Rendered: a note whose two URLs are the same once trimmed, and a note
\* whose resolved title equals its trimmed given title.
C15_Witness ==
  /\ \E n \in NoteIds :
       /\ content_encoded[n] # <<>>
       /\ note_infos[n].fields.given_url # note_infos[n].fields.resolved_url
       /\ PrimaryUrl(note_infos[n].fields) = OtherUrl(note_infos[n].fields)
       /\ Line(content_encoded[n], 8) =
            <<58, 82, 79, 65, 77, 95, 82, 69, 70, 83, 58, 32, 117, 50>>
  /\ \E n \in NoteIds :
       /\ content_encoded[n] # <<>>
       /\ note_infos[n].fields.given_title # note_infos[n].fields.resolved_title
       /\ Strip(note_infos[n].fields.given_title)
            = Strip(note_infos[n].fields.resolved_title)
       /\ Line(content_encoded[n], 9) = <<58, 69, 78, 68, 58>>

\* C19: when the report is produced the empty-title list holds, once each,
\* the notes whose pipelines called log_empty_title, and nothing else.
C19_EmptyTitleListExact ==
  mainPc \in {"report", "done"} =>
    /\ \A k \in 1..Len(empty_title_notes) : empty_title_notes[k] \in NoteIds
    /\ \A n \in NoteIds :
         EmptyTitleCount(n) =
           (IF HasLogged(n, LogRec("empty_title", "")) THEN 1 ELSE 0)

\* The report is next and two pipelines at least have called
\* log_empty_title.
C19_Witness ==
  /\ mainPc = "report"
  /\ Len(empty_title_notes) >= 2
  /\ \E n \in NoteIds : wpc[n] = "finished" /\ EmptyTitleCount(n) = 0

\* C20: every call of schedule_thread with a note returns having started, in
\* a slot, the thread of that note, which had not been started; a thread is
\* started by the call for its note only; and once the notes are fetched the
\* scheduler comes to its end with every note's pipeline started and
\* terminated.
C20_EveryNoteStartedOnce ==
  /\ [][/\ (schedNi # 0 /\ schedNi' # schedNi) =>
            /\ wpc[schedNi] = "idle"
            /\ wpc'[schedNi] = "start"
            /\ \E i \in Slots : threads'[i] = schedNi
        /\ \A n \in NoteIds :
             (wpc'[n] = "start" /\ wpc[n] # "start") =>
               /\ wpc[n] = "idle"
               /\ schedNi = n]_vars
  /\ (mainPc = "schedule") ~>
       (mainPc = "report" /\ pending = {} /\ \A n \in NoteIds : Terminated(n))

\* The scheduler has come to its end; a pipeline has finished and another
\* has ended with an exception.
C20_Witness ==
  /\ mainPc = "report"
  /\ \E n \in NoteIds : wpc[n] = "finished"
  /\ \E n \in NoteIds : wpc[n] = "failed"

====
